---- MODULE Spec2Model ----
(***************************************************************************)
(* Model of src/components/DeadballRosterGenerator.js: the component       *)
(* state (battingStats, pitchingStats, roster, isGenerating), the two      *)
(* asynchronous CSV parses, and the generateRoster handler with the rating *)
(* converters and the roster assembly it calls.                            *)
(*                                                                         *)
(* Strings of the program are sequences of one-character strings, so that  *)
(* includes, endsWith, parseFloat and parseInt are computed character by   *)
(* character.  A missing CSV field and an empty one are both <<>> (both    *)
(* are falsy in the code and both parse to NaN).  Numbers that parseFloat  *)
(* returns are integers in hundredths; NaN is a separate value.            *)
(***************************************************************************)
EXTENDS Integers, Sequences, FiniteSets, TLC

VARIABLES battingStats, pitchingStats, roster, isGenerating, alert,
          battingParse, pitchingParse, eraArgs, pdResult,
          filterArgs, filterResult, traitArg, traitResult, posArg, posResult

vars == <<battingStats, pitchingStats, roster, isGenerating, alert,
          battingParse, pitchingParse, eraArgs, pdResult,
          filterArgs, filterResult, traitArg, traitResult, posArg, posResult>>

\* Arguments and results of the functions that are also applied on their own
pdVars == <<eraArgs, pdResult>>

filterVars == <<filterArgs, filterResult>>

traitVars == <<traitArg, traitResult>>

posVars == <<posArg, posResult>>

uiVars == <<battingStats, pitchingStats, roster, isGenerating, alert,
            battingParse, pitchingParse>>

----------------------------------------------------------------------------
(* Character-level helpers *)

Digits == <<"0", "1", "2", "3", "4", "5", "6", "7", "8", "9">>

IsDigit(c) == \E i \in 1..10 : Digits[i] = c

DigitVal(c) == (CHOOSE i \in 1..10 : Digits[i] = c) - 1

\* String.prototype.includes
Includes(s, sub) ==
    \E i \in 0..(Len(s) - Len(sub)) :
        \A j \in 1..Len(sub) : s[i + j] = sub[j]

\* String.prototype.endsWith for a one-character suffix
EndsWith(s, c) == Len(s) > 0 /\ s[Len(s)] = c

\* Number of leading white-space characters skipped by parseFloat/parseInt
RECURSIVE SkipSpaces(_, _)
SkipSpaces(s, i) ==
    IF i <= Len(s) /\ s[i] = " " THEN SkipSpaces(s, i + 1) ELSE i

\* Length of the run of digits of s that starts at index i
RECURSIVE DigitRun(_, _)
DigitRun(s, i) ==
    IF i <= Len(s) /\ IsDigit(s[i]) THEN 1 + DigitRun(s, i + 1) ELSE 0

\* Value of the n digits of s that start at index i
RECURSIVE DigitsValue(_, _, _)
DigitsValue(s, i, n) ==
    IF n = 0 THEN 0
    ELSE 10 * DigitsValue(s, i, n - 1) + DigitVal(s[i + n - 1])

NaN == [nan |-> TRUE, v |-> 0]

Num(x) == [nan |-> FALSE, v |-> x]

\* Fixed-point scale of the values parseFloat returns (hundredths)
Scale == 100

\* The first two fraction digits of s from index i (n digits there), in hundredths
FracValue(s, i, n) ==
    IF n = 0 THEN 0
    ELSE IF n = 1 THEN 10 * DigitVal(s[i])
    ELSE 10 * DigitVal(s[i]) + DigitVal(s[i + 1])

\* parseFloat: optional white space, optional sign, digits, optional
\* fraction; anything after the number is ignored; NaN without a digit.
\* Exact for the inputs of this model, whose fractions have at most two
\* significant digits and which use no exponent.
ParseFloat(s) ==
    LET a    == SkipSpaces(s, 1)
        neg  == a <= Len(s) /\ s[a] = "-"
        b    == IF a <= Len(s) /\ (s[a] = "-" \/ s[a] = "+") THEN a + 1 ELSE a
        n    == DigitRun(s, b)
        dot  == b + n <= Len(s) /\ s[b + n] = "."
        m    == IF dot THEN DigitRun(s, b + n + 1) ELSE 0
        mag  == Scale * DigitsValue(s, b, n) + FracValue(s, b + n + 1, m)
    IN  IF n = 0 /\ m = 0 THEN NaN
        ELSE Num(IF neg THEN 0 - mag ELSE mag)

\* parseInt (radix 10): optional white space, optional sign, digits
ParseInt(s) ==
    LET a    == SkipSpaces(s, 1)
        neg  == a <= Len(s) /\ s[a] = "-"
        b    == IF a <= Len(s) /\ (s[a] = "-" \/ s[a] = "+") THEN a + 1 ELSE a
        n    == DigitRun(s, b)
        mag  == DigitsValue(s, b, n)
    IN  IF n = 0 THEN NaN
        ELSE Num(IF neg THEN 0 - mag ELSE mag)

\* x || 0 for a number x: NaN and 0 are falsy
OrZero(x) == IF x.nan THEN 0 ELSE x.v

\* x > k and x < k for a parsed number: false on NaN
NumGt(x, k) == ~x.nan /\ x.v > k

NumLt(x, k) == ~x.nan /\ x.v < k

----------------------------------------------------------------------------
(* Rating converters and name helpers *)

PitchDieTiers == <<"d20", "d12", "d8", "d4", "-d4", "-d8", "-d12", "-d20">>

\* Mutant of calcPD: the thresholds are compared with <=
calcPDInclusive(era) ==
    LET eraNum == ParseFloat(era)
    IN  IF eraNum.nan THEN "d4"
        ELSE IF eraNum.v <= 2 * Scale THEN "d20"
        ELSE IF eraNum.v <= 3 * Scale THEN "d12"
        ELSE IF eraNum.v <= 4 * Scale THEN "d8"
        ELSE IF eraNum.v <= 5 * Scale THEN "d4"
        ELSE IF eraNum.v <= 6 * Scale THEN "-d4"
        ELSE IF eraNum.v <= 7 * Scale THEN "-d8"
        ELSE IF eraNum.v <= 8 * Scale THEN "-d12"
        ELSE "-d20"

calcPD(era) ==
    LET eraNum == ParseFloat(era)
    IN  IF eraNum.nan THEN "d4"
        ELSE IF eraNum.v < 2 * Scale THEN "d20"
        ELSE IF eraNum.v < 3 * Scale THEN "d12"
        ELSE IF eraNum.v < 4 * Scale THEN "d8"
        ELSE IF eraNum.v < 5 * Scale THEN "d4"
        ELSE IF eraNum.v < 6 * Scale THEN "-d4"
        ELSE IF eraNum.v < 7 * Scale THEN "-d8"
        ELSE IF eraNum.v < 8 * Scale THEN "-d12"
        ELSE "-d20"

getHandedness(name) ==
    IF name = <<>> THEN "R"
    ELSE IF EndsWith(name, "*") THEN "L"
    ELSE IF EndsWith(name, "#") THEN "S"
    ELSE "R"

cleanName(name) ==
    IF name = <<>> THEN <<>>
    ELSE IF EndsWith(name, "*") \/ EndsWith(name, "#")
         THEN SubSeq(name, 1, Len(name) - 1)
    ELSE name

getPosition(posStr) ==
    IF posStr = <<>> THEN "UT"
    ELSE IF Includes(posStr, <<"C">>) THEN "C"
    ELSE IF Includes(posStr, <<"1", "B">>) THEN "1B"
    ELSE IF Includes(posStr, <<"2", "B">>) THEN "2B"
    ELSE IF Includes(posStr, <<"3", "B">>) THEN "3B"
    ELSE IF Includes(posStr, <<"S", "S">>) THEN "SS"
    ELSE IF Includes(posStr, <<"L", "F">>) THEN "LF"
    ELSE IF Includes(posStr, <<"C", "F">>) THEN "CF"
    ELSE IF Includes(posStr, <<"R", "F">>) THEN "RF"
    ELSE IF Includes(posStr, <<"O", "F">>) THEN "OF"
    ELSE IF Includes(posStr, <<"D", "H">>) THEN "DH"
    ELSE "UT"

----------------------------------------------------------------------------
(* Generic sequence helpers (Array.prototype.slice / filter / find) *)

Min(a, b) == IF a < b THEN a ELSE b

\* arr.slice(0, n)
Take(seq, n) == SubSeq(seq, 1, Min(n, Len(seq)))

\* arr.slice(n)
Drop(seq, n) == SubSeq(seq, n + 1, Len(seq))

----------------------------------------------------------------------------
(* calcBT / calcOBT: Math.round(parseFloat(x) * 100), 0 when NaN.  The     *)
(* parsed value is already held in hundredths.                             *)

calcBT(avg) == OrZero(ParseFloat(avg))

calcOBT(obp) == OrZero(ParseFloat(obp))

----------------------------------------------------------------------------
(* Processing of the batting rows, lines 206-227.  The field id of a       *)
(* processed record is the index of its row: it stands for the identity of *)
(* the JavaScript object, which the code compares with !==.  The traits   *)
(* string of a record is left out of it; calcBattingTraits is modelled on  *)
(* its own further down.                                                   *)

\* Mutant of BatterAccepted: plate appearances and games must both be positive
BatterAcceptedBoth(player) ==
    ~( player.Player = <<>>
       \/ player.BA = <<>>
       \/ ~(NumGt(ParseInt(player.PA), 0) /\ NumGt(ParseInt(player.G), 0)) )

BatterAccepted(player) ==
    ~( player.Player = <<>>
       \/ player.BA = <<>>
       \/ ~(NumGt(ParseInt(player.PA), 0) \/ NumGt(ParseInt(player.G), 0)) )

BatterRecord(player, i) ==
    [ id         |-> i,
      name       |-> cleanName(player.Player),
      position   |-> getPosition(player.Pos),
      handedness |-> getHandedness(player.Player),
      bt         |-> calcBT(player.BA),
      obt        |-> calcOBT(player.OBP),
      games      |-> OrZero(ParseInt(player.G)),
      war        |-> OrZero(ParseFloat(player.WAR)) ]

RECURSIVE ProcessBattersFrom(_, _)
ProcessBattersFrom(stats, i) ==
    IF i > Len(stats) THEN <<>>
    ELSE IF BatterAccepted(stats[i])
         THEN <<BatterRecord(stats[i], i)>> \o ProcessBattersFrom(stats, i + 1)
    ELSE ProcessBattersFrom(stats, i + 1)

\* Mutant of InsertByWar: r goes in front of the elements of equal war
RECURSIVE InsertByWarUnstable(_, _)
InsertByWarUnstable(sorted, r) ==
    IF sorted = <<>> THEN <<r>>
    ELSE IF Head(sorted).war - r.war > 0
         THEN <<Head(sorted)>> \o InsertByWarUnstable(Tail(sorted), r)
    ELSE <<r>> \o sorted

\* Insert r behind every element whose war is >= r.war (stable, descending)
RECURSIVE InsertByWar(_, _)
InsertByWar(sorted, r) ==
    IF sorted = <<>> THEN <<r>>
    ELSE IF Head(sorted).war - r.war >= 0
         THEN <<Head(sorted)>> \o InsertByWar(Tail(sorted), r)
    ELSE <<r>> \o sorted

\* processedBatters.sort((a, b) => b.war - a.war): Array.prototype.sort is stable
RECURSIVE SortByWar(_)
SortByWar(seq) ==
    IF seq = <<>> THEN <<>>
    ELSE InsertByWar(SortByWar(SubSeq(seq, 1, Len(seq) - 1)), seq[Len(seq)])

ProcessedBatters(stats) == SortByWar(ProcessBattersFrom(stats, 1))

----------------------------------------------------------------------------
(* Processing of the pitching rows, lines 232-263.  The random bt and obt  *)
(* of a pitcher (lines 244-245) are left out of the record.                *)

PitcherAccepted(player) ==
    ~( player.Player = <<>>
       \/ player.ERA = <<>>
       \/ ~NumGt(ParseFloat(player.IP), 0) )

PitcherRecord(player, i) ==
    [ id         |-> i,
      name       |-> cleanName(player.Player),
      handedness |-> getHandedness(player.Player),
      pd         |-> calcPD(player.ERA),
      games      |-> OrZero(ParseInt(player.G)),
      starts     |-> OrZero(ParseInt(player.GS)),
      ip         |-> OrZero(ParseFloat(player.IP)) ]

RECURSIVE ProcessPitchersFrom(_, _)
ProcessPitchersFrom(stats, i) ==
    IF i > Len(stats) THEN <<>>
    ELSE IF PitcherAccepted(stats[i])
         THEN <<PitcherRecord(stats[i], i)>> \o ProcessPitchersFrom(stats, i + 1)
    ELSE ProcessPitchersFrom(stats, i + 1)

\* Mutant of IsStarter: a ratio of exactly one half counts as a starter
IsStarterAtHalf(p) == p.starts > 5 \/ (p.games > 0 /\ 2 * p.starts >= p.games)

\* p.starts > 5 || (p.games > 0 && p.starts / p.games > 0.5)
IsStarter(p) == p.starts > 5 \/ (p.games > 0 /\ 2 * p.starts > p.games)

RECURSIVE InsertByIp(_, _)
InsertByIp(sorted, r) ==
    IF sorted = <<>> THEN <<r>>
    ELSE IF Head(sorted).ip - r.ip >= 0
         THEN <<Head(sorted)>> \o InsertByIp(Tail(sorted), r)
    ELSE <<r>> \o sorted

\* .sort((a, b) => b.ip - a.ip)
RECURSIVE SortByIp(_)
SortByIp(seq) ==
    IF seq = <<>> THEN <<>>
    ELSE InsertByIp(SortByIp(SubSeq(seq, 1, Len(seq) - 1)), seq[Len(seq)])

RotationSize == 5

BullpenSize == 7

Starters(processedPitchers) ==
    Take(SortByIp(SelectSeq(processedPitchers, IsStarter)), RotationSize)

NotStarter(p) == ~IsStarter(p)

Relievers(processedPitchers) ==
    Take(SortByIp(SelectSeq(processedPitchers, NotStarter)), BullpenSize)

----------------------------------------------------------------------------
(* Lineup selection, lines 269-299 *)

positions == <<"C", "1B", "2B", "3B", "SS", "LF", "CF", "RF">>

IsUtility(p) == p.position = "UT" \/ p.position = "OF" \/ p.position = "DH"

\* Mutant of RemoveBatter: the chosen batter stays in the pool
RemoveBatterKept(remainingBatters, x) == remainingBatters

\* remainingBatters.filter(p => p !== x)
RemoveBatter(remainingBatters, x) ==
    LET Other(p) == p # x IN SelectSeq(remainingBatters, Other)

\* {...p, position: pos}
Reassign(p, pos) == [p EXCEPT !.position = pos]

\* One iteration of the loop over positions; st = [lineup, remainingBatters]
FillPosition(st, pos) ==
    LET AtPos(p)        == p.position = pos
        positionPlayers == SelectSeq(st.remainingBatters, AtPos)
        utilities       == SelectSeq(st.remainingBatters, IsUtility)
    IN  IF Len(positionPlayers) > 0
        THEN [ lineup           |-> Append(st.lineup, positionPlayers[1]),
               remainingBatters |-> RemoveBatter(st.remainingBatters, positionPlayers[1]) ]
        ELSE IF Len(utilities) > 0
        THEN [ lineup           |-> Append(st.lineup, Reassign(utilities[1], pos)),
               remainingBatters |-> RemoveBatter(st.remainingBatters, utilities[1]) ]
        ELSE IF Len(st.remainingBatters) > 0
        THEN [ lineup           |-> Append(st.lineup, Reassign(st.remainingBatters[1], pos)),
               remainingBatters |-> Drop(st.remainingBatters, 1) ]
        ELSE st

\* The loop over the first n positions
RECURSIVE FillPositions(_, _)
FillPositions(processedBatters, n) ==
    IF n = 0 THEN [lineup |-> <<>>, remainingBatters |-> processedBatters]
    ELSE FillPosition(FillPositions(processedBatters, n - 1), positions[n])

BenchSize == 4

\* remainingBatters.slice(0, 4)
Bench(remainingBatters) == Take(remainingBatters, BenchSize)

----------------------------------------------------------------------------
(* Placeholder padding, lines 302-337.  A template-literal name is the     *)
(* fixed text followed by the digits of the number; id 0 marks a record    *)
(* that comes from no row.                                                 *)

\* String(n) for n >= 0
RECURSIVE ToDigits(_)
ToDigits(n) ==
    IF n < 10 THEN <<Digits[n + 1]>>
    ELSE Append(ToDigits(n \div 10), Digits[(n % 10) + 1])

BenchPlaceholder(n) ==
    [ id |-> 0, name |-> <<"Bench Player ">> \o ToDigits(n), position |-> "UT",
      handedness |-> "R", bt |-> 20, obt |-> 25 ]

StarterPlaceholder(n) ==
    [ id |-> 0, name |-> <<"Starting Pitcher ">> \o ToDigits(n), pd |-> "d4",
      handedness |-> "R", bt |-> 15, obt |-> 20 ]

RelieverPlaceholder(n) ==
    [ id |-> 0, name |-> <<"Relief Pitcher ">> \o ToDigits(n), pd |-> "d4",
      handedness |-> "R", bt |-> 12, obt |-> 18 ]

RECURSIVE FinalBench(_)
FinalBench(bench) ==
    IF Len(bench) < BenchSize
    THEN FinalBench(Append(bench, BenchPlaceholder(Len(bench) + 1)))
    ELSE bench

RECURSIVE FinalStarters(_)
FinalStarters(starters) ==
    IF Len(starters) < RotationSize
    THEN FinalStarters(Append(starters, StarterPlaceholder(Len(starters) + 1)))
    ELSE starters

RECURSIVE FinalRelievers(_)
FinalRelievers(relievers) ==
    IF Len(relievers) < BullpenSize
    THEN FinalRelievers(Append(relievers, RelieverPlaceholder(Len(relievers) + 1)))
    ELSE relievers

----------------------------------------------------------------------------
(* The roster generateRoster hands to setRoster, lines 339-343 *)

\* [...lineup, ...finalBench]
PositionPlayers(processedBatters) ==
    LET filled == FillPositions(processedBatters, Len(positions))
    IN  filled.lineup \o FinalBench(Bench(filled.remainingBatters))

BuildRoster(bStats, pStats) ==
    LET processedPitchers == ProcessPitchersFrom(pStats, 1)
    IN  [ positionPlayers  |-> PositionPlayers(ProcessedBatters(bStats)),
          startingPitchers |-> FinalStarters(Starters(processedPitchers)),
          reliefPitchers   |-> FinalRelievers(Relievers(processedPitchers)) ]

EmptyRoster ==
    [ positionPlayers |-> <<>>, startingPitchers |-> <<>>, reliefPitchers |-> <<>> ]

----------------------------------------------------------------------------
(* Input files.  results.data of a parse is a sequence of rows; the files  *)
(* the model can be given are the members of the families below.           *)

MaxBatRows == 13

MaxPitRows == 14

\* Strides through the position, WAR, role and IP strings, and the periods
\* of the skipped rows (0: no row is skipped, 1: every row is)
PosStrides == {0, 1, 5}

WarStrides == {0, 1}

RoleStrides == {0, 1, 3}

IpStrides == {0, 1}

SkipPeriods == {0, 1, 3}

PosStrings ==
    << <<"C">>, <<"1", "B">>, <<"2", "B">>, <<"3", "B">>, <<"S", "S">>,
       <<"L", "F">>, <<"C", "F">>, <<"R", "F">>, <<"O", "F">>, <<"D", "H">>,
       <<>>, <<"P">> >>

WarStrings ==
    << <<"3", ".", "0">>, <<"1", ".", "5">>, <<"1", ".", "5">>,
       <<"0", ".", "2">>, <<"-", "0", ".", "5">>, <<>>, <<"4", ".", "1">> >>

NameSuffixes == << <<>>, <<"*">>, <<"#">> >>

PlayerName(i) == <<"P">> \o ToDigits(i) \o NameSuffixes[(i % 3) + 1]

\* Row i of the batting file with n rows: position string ps*(i-1)+po,
\* WAR string ws*(i-1), and PA = G = 0 on every sk-th row when sk > 0
BatRow(i, ps, po, ws, sk) ==
    LET skipped == sk > 0 /\ i % sk = 0
    IN  [ Player |-> PlayerName(i),
          Pos    |-> PosStrings[(((i - 1) * ps + po) % Len(PosStrings)) + 1],
          BA     |-> <<".", "2", "8", "0">>,
          OBP    |-> <<".", "3", "5">>,
          PA     |-> IF skipped THEN <<"0">> ELSE <<"4", "0", "0">>,
          G      |-> IF skipped THEN <<"0">> ELSE <<"9", "0">>,
          WAR    |-> WarStrings[(((i - 1) * ws) % Len(WarStrings)) + 1] ]

BatFile(n, ps, po, ws, sk) == [i \in 1..n |-> BatRow(i, ps, po, ws, sk)]

BatFiles ==
    { BatFile(n, ps, po, ws, sk) :
        n \in 0..MaxBatRows, ps \in PosStrides, po \in 0..(Len(PosStrings) - 1),
        ws \in WarStrides, sk \in SkipPeriods }

\* <<GS, G>> of a pitching row
RoleStrings ==
    << << <<"2", "0">>, <<"2", "2">> >>,
       << <<"0">>, <<"4", "0">> >>,
       << <<"3">>, <<"4">> >>,
       << <<"2">>, <<"4">> >>,
       << <<"6">>, <<"3", "0">> >>,
       << <<>>, <<>> >>,
       << <<"1">>, <<"0">> >> >>

IpStrings ==
    << <<"1", "8", "0">>, <<"6", "0">>, <<"6", "0", ".", "1">>,
       <<"1", "2", "0", ".", "2">>, <<"6", "0">>, <<"0">>, <<"2", "0", "0">> >>

PitRow(i, rs, ro, is, sk) ==
    LET role == RoleStrings[(((i - 1) * rs + ro) % Len(RoleStrings)) + 1]
    IN  [ Player |-> PlayerName(i),
          ERA    |-> IF sk > 0 /\ i % sk = 0 THEN <<>> ELSE <<"3", ".", "5", "0">>,
          IP     |-> IpStrings[(((i - 1) * is) % Len(IpStrings)) + 1],
          G      |-> role[2],
          GS     |-> role[1] ]

PitFile(n, rs, ro, is, sk) == [i \in 1..n |-> PitRow(i, rs, ro, is, sk)]

PitFiles ==
    { PitFile(n, rs, ro, is, sk) :
        n \in 0..MaxPitRows, rs \in RoleStrides, ro \in 0..(Len(RoleStrings) - 1),
        is \in IpStrides, sk \in SkipPeriods }

\* The files the upload callbacks deliver in the specification of the whole
\* component: an empty file, one row, a file whose rows are all skipped, a
\* full file
UploadBatFiles ==
    { BatFile(0, 1, 0, 1, 0), BatFile(1, 1, 0, 1, 0), BatFile(2, 0, 0, 0, 1),
      BatFile(MaxBatRows, 1, 0, 1, 0) }

UploadPitFiles ==
    { PitFile(0, 1, 0, 1, 0), PitFile(6, 1, 0, 0, 0), PitFile(MaxPitRows, 1, 0, 1, 0) }

----------------------------------------------------------------------------
(* Component state, lines 5-13.  A stats value is null or the array a      *)
(* parse delivered.                                                        *)

Null == [loaded |-> FALSE, data |-> <<>>]

Loaded(data) == [loaded |-> TRUE, data |-> data]

\* Number of Papa.parse calls of one input that may be in flight together
MaxInFlight == 1

NoEra == << <<>>, <<>> >>

\* The values of the variables of a function that is not being applied
PdIdle == eraArgs = NoEra /\ pdResult = <<>>

FilterIdle == filterArgs = << <<>>, <<>> >> /\ filterResult = <<>>

TraitIdle == traitArg = <<>> /\ traitResult = <<>>

PosIdle == posArg = <<>> /\ posResult = <<>>

\* The component before any upload
UiInitial ==
    /\ battingStats = Null
    /\ pitchingStats = Null
    /\ roster = EmptyRoster
    /\ isGenerating = FALSE
    /\ alert = "none"
    /\ battingParse = 0
    /\ pitchingParse = 0

Init ==
    /\ battingStats = Null
    /\ pitchingStats = Null
    /\ roster = EmptyRoster
    /\ isGenerating = FALSE
    /\ alert = "none"
    /\ battingParse = 0
    /\ pitchingParse = 0
    /\ eraArgs = NoEra
    /\ pdResult = <<>>
    /\ FilterIdle
    /\ TraitIdle
    /\ PosIdle

----------------------------------------------------------------------------
(* Uploads, lines 161-193: choosing a file starts an asynchronous parse;   *)
(* its complete callback stores results.data, its error callback only logs *)

handleBattingUpload ==
    /\ battingParse < MaxInFlight
    /\ battingParse' = battingParse + 1
    /\ alert' = "none"
    /\ UNCHANGED <<battingStats, pitchingStats, roster, isGenerating, pitchingParse,
                   eraArgs, pdResult, filterVars, traitVars, posVars>>

BattingParseComplete ==
    /\ battingParse > 0
    /\ \E data \in UploadBatFiles : battingStats' = Loaded(data)
    /\ battingParse' = battingParse - 1
    /\ alert' = "none"
    /\ UNCHANGED <<pitchingStats, roster, isGenerating, pitchingParse, eraArgs, pdResult, filterVars, traitVars, posVars>>

BattingParseError ==
    /\ battingParse > 0
    /\ battingParse' = battingParse - 1
    /\ alert' = "none"
    /\ UNCHANGED <<battingStats, pitchingStats, roster, isGenerating, pitchingParse,
                   eraArgs, pdResult, filterVars, traitVars, posVars>>

handlePitchingUpload ==
    /\ pitchingParse < MaxInFlight
    /\ pitchingParse' = pitchingParse + 1
    /\ alert' = "none"
    /\ UNCHANGED <<battingStats, pitchingStats, roster, isGenerating, battingParse,
                   eraArgs, pdResult, filterVars, traitVars, posVars>>

PitchingParseComplete ==
    /\ pitchingParse > 0
    /\ \E data \in UploadPitFiles : pitchingStats' = Loaded(data)
    /\ pitchingParse' = pitchingParse - 1
    /\ alert' = "none"
    /\ UNCHANGED <<battingStats, roster, isGenerating, battingParse, eraArgs, pdResult, filterVars, traitVars, posVars>>

PitchingParseError ==
    /\ pitchingParse > 0
    /\ pitchingParse' = pitchingParse - 1
    /\ alert' = "none"
    /\ UNCHANGED <<battingStats, pitchingStats, roster, isGenerating, battingParse,
                   eraArgs, pdResult, filterVars, traitVars, posVars>>

----------------------------------------------------------------------------
(* generateRoster, lines 195-350.  The handler runs to completion as one   *)
(* step.  It is modelled for every state, also those in which the button   *)
(* that calls it is disabled (GenerateDisabled).                           *)

\* disabled={!battingStats || !pitchingStats || isGenerating}
GenerateDisabled == ~battingStats.loaded \/ ~pitchingStats.loaded \/ isGenerating

\* Mutant of InputMissing: the two length tests are forgotten
InputMissingNoLength(bStats, pStats) == ~bStats.loaded \/ ~pStats.loaded

\* Mutant of InputMissing: the pitching stats are not tested
InputMissingBattingOnly(bStats, pStats) == ~bStats.loaded \/ Len(bStats.data) = 0

\* !battingStats || !pitchingStats || battingStats.length === 0 || pitchingStats.length === 0
InputMissing(bStats, pStats) ==
    \/ ~bStats.loaded
    \/ ~pStats.loaded
    \/ Len(bStats.data) = 0
    \/ Len(pStats.data) = 0

\* Mutant of RosterAfterRun: the position players are stored before the
\* statement that throws
RosterAfterRunPartial(old, built, threw) ==
    IF threw THEN [old EXCEPT !.positionPlayers = built.positionPlayers] ELSE built

\* The roster after a run of the try block: setRoster is its last
\* statement, so a run that throws has not called it
RosterAfterRun(old, built, threw) == IF threw THEN old ELSE built

\* isGenerating after a run: setIsGenerating(true) before the try block,
\* setIsGenerating(false) in its finally clause
IsGeneratingAfterRun(threw) == FALSE

GenerateRefused ==
    /\ InputMissing(battingStats, pitchingStats)
    /\ alert' = "Please upload both batting and pitching stats files with valid data."
    /\ UNCHANGED <<battingStats, pitchingStats, roster, isGenerating, battingParse,
                   pitchingParse, eraArgs, pdResult, filterVars, traitVars, posVars>>

\* threw: an exception is raised inside the try block
GenerateRun(threw) ==
    /\ ~InputMissing(battingStats, pitchingStats)
    /\ roster' = RosterAfterRun(roster,
                                BuildRoster(battingStats.data, pitchingStats.data),
                                threw)
    /\ isGenerating' = IsGeneratingAfterRun(threw)
    /\ alert' = IF threw THEN "Error generating roster: " ELSE "none"
    /\ UNCHANGED <<battingStats, pitchingStats, battingParse, pitchingParse,
                   eraArgs, pdResult, filterVars, traitVars, posVars>>

GenerateSucceeded == GenerateRun(FALSE)

GenerateThrew == GenerateRun(TRUE)

generateRoster == GenerateRefused \/ GenerateSucceeded \/ GenerateThrew

Next ==
    \/ handleBattingUpload
    \/ BattingParseComplete
    \/ BattingParseError
    \/ handlePitchingUpload
    \/ PitchingParseComplete
    \/ PitchingParseError
    \/ GenerateRefused
    \/ GenerateSucceeded
    \/ GenerateThrew

Spec == Init /\ [][Next]_vars

----------------------------------------------------------------------------
(* generateRoster alone, started from every pair of loaded files of the    *)
(* families: one of the two files ranges over its whole family while the   *)
(* other is a fixed file of the other family.                              *)

InitGenerate ==
    /\ \/ \E b \in BatFiles :
             battingStats = Loaded(b) /\ pitchingStats = Loaded(PitFile(6, 1, 0, 0, 0))
       \/ \E p \in PitFiles :
             battingStats = Loaded(BatFile(MaxBatRows, 1, 0, 1, 0)) /\ pitchingStats = Loaded(p)
    /\ roster = EmptyRoster
    /\ isGenerating = FALSE
    /\ alert = "none"
    /\ battingParse = 0
    /\ pitchingParse = 0
    /\ eraArgs = NoEra
    /\ pdResult = <<>>
    /\ FilterIdle
    /\ TraitIdle
    /\ PosIdle

NextGenerate ==
    \/ GenerateRefused
    \/ GenerateSucceeded
    \/ GenerateThrew

SpecGenerate == InitGenerate /\ [][NextGenerate]_vars

----------------------------------------------------------------------------
(* calcPD alone, applied to a pair of ERA strings *)

MaxEraInt == 9

FracParts == { <<"0", "0">>, <<"5", "0">>, <<"9", "9">> }

EraStrings ==
    { ToDigits(a) \o <<".">> \o f : a \in 0..MaxEraInt, f \in FracParts }
    \cup { <<>>, <<"a", "b", "c">>, <<"-", "-">>, <<"2">>, <<"7", ".", "5">>,
           <<"-", "1", ".", "0", "0">>, <<" ", "3", ".", "0", "0">>,
           <<"3", ".", "0", "0", "x">>, <<"1", "2", ".", "3", "4">> }

InitPD ==
    /\ battingStats = Null
    /\ pitchingStats = Null
    /\ roster = EmptyRoster
    /\ isGenerating = FALSE
    /\ alert = "none"
    /\ battingParse = 0
    /\ pitchingParse = 0
    /\ eraArgs \in EraStrings \X EraStrings
    /\ pdResult = <<>>
    /\ FilterIdle
    /\ TraitIdle
    /\ PosIdle

ApplyCalcPD ==
    /\ pdResult = <<>>
    /\ pdResult' = <<calcPD(eraArgs[1]), calcPD(eraArgs[2])>>
    /\ UNCHANGED <<uiVars, eraArgs, filterVars, traitVars, posVars>>

NextPD == ApplyCalcPD

SpecPD == InitPD /\ [][NextPD]_vars

----------------------------------------------------------------------------
(* Properties *)

Generated == roster # EmptyRoster

\* Indices of the accepted rows of a batting or pitching file
AcceptedBatters(stats) == {i \in 1..Len(stats) : BatterAccepted(stats[i])}

AcceptedPitchers(stats) == {i \in 1..Len(stats) : PitcherAccepted(stats[i])}

IsPlaceholder(r) == r.id = 0

\* C1: after every successful generateRoster run, whatever the numbers of
\* accepted batters and pitchers, positionPlayers has exactly 12 entries,
\* startingPitchers exactly 5 and reliefPitchers exactly 7.
C1_RosterSizes ==
    Generated =>
        /\ Len(roster.positionPlayers) = 12
        /\ Len(roster.startingPitchers) = 5
        /\ Len(roster.reliefPitchers) = 7

\* C2: for any non-empty list of accepted batters, the positions of the
\* first 8 entries of positionPlayers are a permutation of the eight field
\* positions, each occurring exactly once.
C2_LineupPermutation ==
    (Generated /\ AcceptedBatters(battingStats.data) # {}) =>
        /\ Len(roster.positionPlayers) >= 8
        /\ \A k \in 1..Len(positions) :
              Cardinality({i \in 1..8 : roster.positionPlayers[i].position = positions[k]}) = 1

\* A stats value that is absent or an empty list
Absent(stats) == ~stats.loaded \/ stats.data = <<>>

RefusalMessage == "Please upload both batting and pitching stats files with valid data."

\* C3: while the batting stats or the pitching stats are absent or empty, no
\* step changes the roster or sets isGenerating, and a step that is a
\* generateRoster call (it leaves the stats and the parses in flight alone)
\* shows the refusal message.
C3_RefusedWithoutInput ==
    [][ (Absent(battingStats) \/ Absent(pitchingStats)) =>
          /\ roster' = roster
          /\ isGenerating' = isGenerating
          /\ (UNCHANGED <<battingStats, pitchingStats, battingParse, pitchingParse>>
                => alert' = RefusalMessage) ]_vars

\* C3 witness: a generateRoster call was refused for an empty batting file
\* while a roster generated earlier is still the current roster
C3_Witness ==
    /\ alert = RefusalMessage
    /\ Generated
    /\ battingStats.loaded /\ battingStats.data = <<>>
    /\ pitchingStats.loaded /\ pitchingStats.data # <<>>

\* The resolved position and the WAR of batting row i
RowPosition(stats, i) == getPosition(stats[i].Pos)

RowWar(stats, i) == OrZero(ParseFloat(stats[i].WAR))

\* C4: no accepted batter record appears more than once among the position
\* players: every entry that is not a placeholder comes from an accepted row,
\* and no two entries come from the same row.
C4_NoBatterTwice ==
    Generated =>
        LET pp == roster.positionPlayers
        IN  /\ \A i \in 1..Len(pp) :
                  IsPlaceholder(pp[i]) \/ pp[i].id \in AcceptedBatters(battingStats.data)
            /\ \A i, j \in 1..Len(pp) :
                  (i < j /\ ~IsPlaceholder(pp[i])) => pp[i].id # pp[j].id

\* C4 witness: a roster whose lineup holds a batter moved from another
\* position and whose bench holds four real batters
C4_Witness ==
    /\ Generated
    /\ Len(roster.positionPlayers) = 12
    /\ \A i \in 1..12 : ~IsPlaceholder(roster.positionPlayers[i])
    /\ \E k \in 1..8 :
          RowPosition(battingStats.data, roster.positionPlayers[k].id) # positions[k]

\* Pool order: WAR descending, rows of equal WAR in input order
PoolBefore(stats, i, j) ==
    \/ RowWar(stats, i) > RowWar(stats, j)
    \/ (RowWar(stats, i) = RowWar(stats, j) /\ i < j)

\* The first row of the non-empty set S in pool order
PoolFirst(stats, S) == CHOOSE x \in S : \A y \in S \ {x} : PoolBefore(stats, x, y)

UtilityPositions == {"UT", "OF", "DH"}

\* The row the claim places in slot k, given the rosters' earlier slots
ExpectedAtSlot(stats, pp, k) ==
    LET pool    == AcceptedBatters(stats) \ {pp[j].id : j \in 1..(k - 1)}
        matches == {i \in pool : RowPosition(stats, i) = positions[k]}
        utils   == {i \in pool : RowPosition(stats, i) \in UtilityPositions}
    IN  IF matches # {} THEN PoolFirst(stats, matches)
        ELSE IF utils # {} THEN PoolFirst(stats, utils)
        ELSE PoolFirst(stats, pool)

\* C5: each field slot, taken in the order C,1B,2B,3B,SS,LF,CF,RF while the
\* pool is not empty, holds the first pool batter (WAR descending, ties in
\* input order) whose position is the slot, else the first whose position is
\* UT, OF or DH, else the first of the pool, stored with the slot as its
\* position; the bench is the first 4 (or fewer) batters left, in pool order,
\* with their positions unchanged.
C5_SlotSelection ==
    Generated =>
        LET stats  == battingStats.data
            pp     == roster.positionPlayers
            acc    == AcceptedBatters(stats)
            filled == Min(Len(positions), Cardinality(acc))
            left   == acc \ {pp[j].id : j \in 1..filled}
            seated == Min(4, Cardinality(left))
        IN  /\ Len(pp) >= filled + seated
            /\ \A k \in 1..filled :
                  /\ pp[k].id = ExpectedAtSlot(stats, pp, k)
                  /\ pp[k].position = positions[k]
            /\ \A b \in 1..seated :
                  /\ pp[filled + b].id \in left
                  /\ Cardinality({y \in left : PoolBefore(stats, y, pp[filled + b].id)}) = b - 1
                  /\ pp[filled + b].position = RowPosition(stats, pp[filled + b].id)
            /\ \A i \in (filled + seated + 1)..Len(pp) : IsPlaceholder(pp[i])

\* C5 witness: a lineup with a position match, a UT/OF/DH batter moved to a
\* slot and a batter of another field position moved to a slot, two batters
\* of equal WAR, and a real batter on the bench
C5_Witness ==
    /\ Generated
    /\ Len(roster.positionPlayers) >= 9
    /\ LET stats == battingStats.data
           pp    == roster.positionPlayers
       IN  /\ \A k \in 1..9 : ~IsPlaceholder(pp[k])
           /\ \E k \in 1..8 : RowPosition(stats, pp[k].id) = positions[k]
           /\ \E k \in 1..8 : RowPosition(stats, pp[k].id) \in UtilityPositions
           /\ \E k \in 1..8 :
                 /\ RowPosition(stats, pp[k].id) # positions[k]
                 /\ RowPosition(stats, pp[k].id) \notin UtilityPositions
           /\ \E i, j \in 1..9 : i # j /\ pp[i].war = pp[j].war

\* Games started, games and innings pitched of pitching row i
RowStarts(stats, i) == OrZero(ParseInt(stats[i].GS))

RowGames(stats, i) == OrZero(ParseInt(stats[i].G))

RowIp(stats, i) == OrZero(ParseFloat(stats[i].IP))

\* starts > 5 OR (games > 0 AND starts/games > 0.5)
StarterRow(stats, i) ==
    \/ RowStarts(stats, i) > 5
    \/ (RowGames(stats, i) > 0 /\ 2 * RowStarts(stats, i) > RowGames(stats, i))

\* Innings pitched descending, rows of equal IP in input order
IpBefore(stats, i, j) ==
    \/ RowIp(stats, i) > RowIp(stats, j)
    \/ (RowIp(stats, i) = RowIp(stats, j) /\ i < j)

\* list holds, in IP order, the first size rows of group (all of them if
\* fewer), followed by placeholders only
TopOfGroup(stats, list, group, size) ==
    LET kept == Min(size, Cardinality(group))
    IN  /\ Len(list) >= kept
        /\ \A k \in 1..kept :
              /\ list[k].id \in group
              /\ Cardinality({y \in group : IpBefore(stats, y, list[k].id)}) = k - 1
        /\ \A k \in (kept + 1)..Len(list) : IsPlaceholder(list[k])

\* C6: the real entries of startingPitchers are the first 5 (or all) accepted
\* pitchers with starts > 5 or (games > 0 and starts/games > 0.5), by innings
\* pitched descending with ties in input order; the real entries of
\* reliefPitchers are the first 7 (or all) of the other accepted pitchers in
\* the same order; no pitcher is in both lists.
C6_PitcherSplit ==
    Generated =>
        LET stats    == pitchingStats.data
            acc      == AcceptedPitchers(stats)
            starting == {i \in acc : StarterRow(stats, i)}
            sp       == roster.startingPitchers
            rp       == roster.reliefPitchers
        IN  /\ TopOfGroup(stats, sp, starting, 5)
            /\ TopOfGroup(stats, rp, acc \ starting, 7)
            /\ \A i \in 1..Len(sp), j \in 1..Len(rp) :
                  IsPlaceholder(sp[i]) \/ sp[i].id # rp[j].id

\* C6 witness: more than 5 accepted starters and more than 7 accepted
\* relievers, among them a pitcher whose starts are exactly half his games,
\* so that one pitcher of each group is in neither list
C6_Witness ==
    /\ Generated
    /\ LET stats    == pitchingStats.data
           acc      == AcceptedPitchers(stats)
           starting == {i \in acc : StarterRow(stats, i)}
       IN  /\ Cardinality(starting) > 5
           /\ Cardinality(acc \ starting) > 7
           /\ \E i \in acc : RowGames(stats, i) > 0 /\ 2 * RowStarts(stats, i) = RowGames(stats, i)
           /\ \A k \in 1..5 : ~IsPlaceholder(roster.startingPitchers[k])
           /\ \A k \in 1..7 : ~IsPlaceholder(roster.reliefPitchers[k])

\* C7: when fewer than 8 batters are accepted, the field slots that receive
\* no real batter hold placeholders and the bench is 4 placeholders: the
\* accepted batters are followed by placeholders up to 12 position players.
C7_ShortLineupPadded ==
    LET n == Cardinality(AcceptedBatters(battingStats.data))
    IN  (Generated /\ n < 8) =>
            /\ Len(roster.positionPlayers) = 12
            /\ \A i \in 1..n : ~IsPlaceholder(roster.positionPlayers[i])
            /\ \A i \in (n + 1)..12 : IsPlaceholder(roster.positionPlayers[i])

\* C8: every step leaves isGenerating false and leaves the roster as it was
\* or replaces it by the whole roster built from the current stats, the
\* latter only in a run that reports no error.
C8_RosterAllOrNothing ==
    [][ /\ isGenerating' = FALSE
        /\ \/ roster' = roster
           \/ /\ roster' = BuildRoster(battingStats.data, pitchingStats.data)
              /\ alert' = "none" ]_vars

\* C8 witness: a run has failed after new batting stats were loaded, and
\* the roster of the earlier generation is still the current roster
C8_Witness ==
    /\ alert = "Error generating roster: "
    /\ Generated
    /\ roster # BuildRoster(battingStats.data, pitchingStats.data)
    /\ isGenerating = FALSE

\* C9: a roster exists only if a batting parse and a pitching parse have
\* both completed.
C9_RosterNeedsBothParses ==
    Generated => (battingStats.loaded /\ pitchingStats.loaded)

\* C9 witness: the pitching parse completed first, and a generate request
\* made while the batting parse is still in flight has produced no roster
C9_Witness ==
    /\ pitchingStats.loaded /\ pitchingStats.data # <<>>
    /\ ~battingStats.loaded
    /\ battingParse > 0
    /\ alert = RefusalMessage
    /\ ~Generated

TierIndex(pd) == CHOOSE i \in 1..Len(PitchDieTiers) : PitchDieTiers[i] = pd

\* The tier the claim gives a parsed ERA v (in hundredths): one step worse
\* for every threshold 2.00, 3.00, ..., 8.00 that v is not below
ClaimedTier(v) == PitchDieTiers[1 + Cardinality({t \in 2..8 : v >= t * Scale})]

\* C10: calcPD of a parseable ERA is the tier of the first threshold in
\* 2.00, ..., 8.00 the ERA is strictly less than (else -d20), so the tier
\* never improves as the ERA increases; an unparseable ERA gives d4.
C10_PitchDie ==
    pdResult # <<>> =>
        LET e1 == ParseFloat(eraArgs[1])
            e2 == ParseFloat(eraArgs[2])
        IN  /\ \A k \in 1..2 :
                  pdResult[k] = IF ParseFloat(eraArgs[k]).nan THEN "d4"
                                ELSE ClaimedTier(ParseFloat(eraArgs[k]).v)
            /\ (~e1.nan /\ ~e2.nan /\ e1.v <= e2.v)
                  => TierIndex(pdResult[1]) <= TierIndex(pdResult[2])

\* C10 witness: ERA 2.00 gave d12 and ERA 1.99 gave d20
C10_Witness ==
    /\ eraArgs = << <<"2", ".", "0", "0">>, <<"1", ".", "9", "9">> >>
    /\ pdResult = <<"d12", "d20">>

----------------------------------------------------------------------------
(* The two row filters alone, lines 208-212 and 234-238: the loops over    *)
(* the rows of a batting file and of a pitching file, before any sorting.  *)

MaxFilterRows == 2

FilterBatRows ==
    { [ Player |-> pl, Pos |-> <<"S", "S">>, BA |-> ba,
        OBP |-> <<".", "3", "5">>, PA |-> pa, G |-> g, WAR |-> <<"1", ".", "5">> ] :
        pl \in { <<>>, <<"P", "1", "*">> },
        ba \in { <<>>, <<".", "2", "8", "0">> },
        pa \in { <<>>, <<"0">>, <<"4", "0", "0">>, <<"-", "3">> },
        g  \in { <<>>, <<"0">>, <<"9", "0">> } }

FilterPitRows ==
    { [ Player |-> pl, ERA |-> era, IP |-> ip, G |-> <<"3", "0">>, GS |-> <<"6">> ] :
        pl  \in { <<>>, <<"P", "2">> },
        era \in { <<>>, <<"3", ".", "5", "0">>, <<"0">> },
        ip  \in { <<>>, <<"0">>, <<"0", ".", "0">>, <<"6", "0", ".", "1">>,
                  <<"-", "5">>, <<"a", "b", "c">> } }

\* The sequences over S of length at most n
SeqsUpTo(S, n) == UNION { [1..k -> S] : k \in 0..n }

InitFilter ==
    /\ UiInitial
    /\ PdIdle
    /\ TraitIdle
    /\ PosIdle
    /\ \/ \E b \in SeqsUpTo(FilterBatRows, MaxFilterRows) : filterArgs = <<b, <<>> >>
       \/ \E p \in SeqsUpTo(FilterPitRows, MaxFilterRows) : filterArgs = << <<>>, p>>
    /\ filterResult = <<>>

ApplyFilters ==
    /\ filterResult = <<>>
    /\ filterResult' = << ProcessBattersFrom(filterArgs[1], 1),
                          ProcessPitchersFrom(filterArgs[2], 1) >>
    /\ UNCHANGED <<uiVars, pdVars, filterArgs, traitVars, posVars>>

NextFilter == ApplyFilters

SpecFilter == InitFilter /\ [][NextFilter]_vars

\* A field that is present
Present(field) == field # <<>>

\* The value of a numeric field is greater than 0
Positive(parsed) == ~parsed.nan /\ parsed.v > 0

\* The rows the claim keeps
ClaimedBatters(stats) ==
    { i \in 1..Len(stats) :
        /\ Present(stats[i].Player)
        /\ Present(stats[i].BA)
        /\ (Positive(ParseInt(stats[i].PA)) \/ Positive(ParseInt(stats[i].G))) }

ClaimedPitchers(stats) ==
    { i \in 1..Len(stats) :
        /\ Present(stats[i].Player)
        /\ Present(stats[i].ERA)
        /\ Positive(ParseFloat(stats[i].IP)) }

\* records holds one record for every row of kept, in row order, and no other
RecordsOf(records, kept) ==
    /\ Len(records) = Cardinality(kept)
    /\ \A k \in 1..Len(records) :
          /\ records[k].id \in kept
          /\ Cardinality({y \in kept : y < records[k].id}) = k - 1

\* C11: a batting row gives a batter record if and only if its name and its
\* batting average are present and (PA > 0 or G > 0); a pitching row gives a
\* pitcher record if and only if its name and its ERA are present and IP > 0;
\* an excluded row does not stop the rows after it from being processed.
C11_RowFilter ==
    filterResult # <<>> =>
        /\ RecordsOf(filterResult[1], ClaimedBatters(filterArgs[1]))
        /\ RecordsOf(filterResult[2], ClaimedPitchers(filterArgs[2]))

\* C11 witness: a batting row with BA present and PA = 0, G = 0 was skipped,
\* and the row after it gave the only record
C11_Witness ==
    /\ filterResult # <<>>
    /\ Len(filterArgs[1]) = 2
    /\ Present(filterArgs[1][1].Player) /\ Present(filterArgs[1][1].BA)
    /\ filterArgs[1][1].PA = <<"0">> /\ filterArgs[1][1].G = <<"0">>
    /\ Len(filterResult[1]) = 1
    /\ filterResult[1][1].id = 2

----------------------------------------------------------------------------
(* calcBattingTraits, lines 57-101.  SLG is compared with 0.560 and 0.475, *)
(* so it is parsed in thousandths.  The returned string traits.join(" ")   *)
(* is the sequence of the tags with a " " between neighbours.              *)

MilliScale == 1000

\* The first three fraction digits of s from index i (n digits there), in thousandths
FracValueMilli(s, i, n) ==
    IF n = 0 THEN 0
    ELSE IF n = 1 THEN 100 * DigitVal(s[i])
    ELSE IF n = 2 THEN 100 * DigitVal(s[i]) + 10 * DigitVal(s[i + 1])
    ELSE 100 * DigitVal(s[i]) + 10 * DigitVal(s[i + 1]) + DigitVal(s[i + 2])

\* parseFloat with the value held in thousandths: exact for fractions of at
\* most three digits
ParseFloatMilli(s) ==
    LET a    == SkipSpaces(s, 1)
        neg  == a <= Len(s) /\ s[a] = "-"
        b    == IF a <= Len(s) /\ (s[a] = "-" \/ s[a] = "+") THEN a + 1 ELSE a
        n    == DigitRun(s, b)
        dot  == b + n <= Len(s) /\ s[b + n] = "."
        m    == IF dot THEN DigitRun(s, b + n + 1) ELSE 0
        mag  == MilliScale * DigitsValue(s, b, n) + FracValueMilli(s, b + n + 1, m)
    IN  IF n = 0 /\ m = 0 THEN NaN
        ELSE Num(IF neg THEN 0 - mag ELSE mag)

\* Mutant of PowerTag: the P+ rule is tested before the P++ rule
PowerTagWeakFirst(player) ==
    LET hr  == OrZero(ParseInt(player.HR))
        slg == OrZero(ParseFloatMilli(player.SLG))
    IN  IF hr >= 25 \/ slg >= 475 THEN <<"P+">>
        ELSE IF hr >= 35 \/ slg >= 560 THEN <<"P++">>
        ELSE IF hr <= 5 THEN <<"P-">>
        ELSE <<>>

\* Lines 60-70
PowerTag(player) ==
    LET hr  == OrZero(ParseInt(player.HR))
        slg == OrZero(ParseFloatMilli(player.SLG))
    IN  IF hr >= 35 \/ slg >= 560 THEN <<"P++">>
        ELSE IF hr >= 25 \/ slg >= 475 THEN <<"P+">>
        ELSE IF hr <= 5 THEN <<"P-">>
        ELSE <<>>

\* Lines 72-81.  kRate = so / pa when pa > 0, else 0; kRate < 0.12 and
\* kRate > 0.25 are compared after multiplying by 100 * pa.
ContactTag(player) ==
    LET doubles      == OrZero(ParseInt(player.Doubles))
        pa           == OrZero(ParseInt(player.PA))
        so           == OrZero(ParseInt(player.SO))
        kRateBelow12 == IF pa > 0 THEN 100 * so < 12 * pa ELSE TRUE
        kRateAbove25 == IF pa > 0 THEN 100 * so > 25 * pa ELSE FALSE
    IN  IF doubles >= 35 \/ kRateBelow12 THEN <<"C+">>
        ELSE IF kRateAbove25 THEN <<"C-">>
        ELSE <<>>

\* Lines 83-90
SpeedTag(player) ==
    LET sb == OrZero(ParseInt(player.SB))
    IN  IF sb >= 20 THEN <<"S+">>
        ELSE IF sb = 0 THEN <<"S-">>
        ELSE <<>>

\* Lines 92-98
DefenseTag(player) ==
    LET pos == player.Pos
    IN  IF (Includes(pos, <<"C">>) \/ Includes(pos, <<"S", "S">>)
              \/ Includes(pos, <<"C", "F">>))
           /\ NumGt(ParseFloat(player.WAR), 150)
        THEN <<"D+">>
        ELSE <<>>

\* Array.prototype.join(" ")
RECURSIVE JoinSpace(_)
JoinSpace(tags) ==
    IF Len(tags) <= 1 THEN tags
    ELSE <<Head(tags), " ">> \o JoinSpace(Tail(tags))

\* The field 2B of a row is named Doubles
calcBattingTraits(player) ==
    JoinSpace(PowerTag(player) \o ContactTag(player) \o SpeedTag(player)
              \o DefenseTag(player))

TraitRows ==
    { [ HR |-> hr, SLG |-> slg, Doubles |-> db, PA |-> pa, SO |-> so, SB |-> sb,
        Pos |-> pos, WAR |-> war ] :
        hr  \in { <<>>, <<"5">>, <<"6">>, <<"2", "4">>, <<"2", "5">>, <<"3", "4">>,
                  <<"3", "5">> },
        slg \in { <<>>, <<".", "4", "7", "4">>, <<".", "4", "7", "5">>,
                  <<".", "5", "5", "9">>, <<".", "5", "6", "0">> },
        db  \in { <<>>, <<"3", "4">>, <<"3", "5">> },
        pa  \in { <<>>, <<"0">>, <<"1", "0", "0">> },
        so  \in { <<"1", "1">>, <<"1", "2">>, <<"2", "5">>, <<"2", "6">> },
        sb  \in { <<>>, <<"0">>, <<"1">>, <<"1", "9">>, <<"2", "0">> },
        pos \in { <<"C">>, <<"1", "B">> },
        war \in { <<"1", ".", "5">>, <<"1", ".", "6">> } }

InitTraits ==
    /\ UiInitial
    /\ PdIdle
    /\ FilterIdle
    /\ PosIdle
    /\ traitArg \in TraitRows
    /\ traitResult = <<>>

\* traitResult is the one-element sequence of the returned string
ApplyCalcBattingTraits ==
    /\ traitResult = <<>>
    /\ traitResult' = <<calcBattingTraits(traitArg)>>
    /\ UNCHANGED <<uiVars, pdVars, filterVars, traitArg, posVars>>

NextTraits == ApplyCalcBattingTraits

SpecTraits == InitTraits /\ [][NextTraits]_vars

\* The tag categories in the order power, contact, speed, defense
TagCategories == << {"P++", "P+", "P-"}, {"C+", "C-"}, {"S+", "S-"}, {"D+"} >>

CategoryOf(tag) == CHOOSE c \in 1..Len(TagCategories) : tag \in TagCategories[c]

\* A stat with missing or unparseable read as 0
Stat(parsed) == IF parsed.nan THEN 0 ELSE parsed.v

\* SO/PA < pct/100 and SO/PA > pct/100, the rate being 0 when PA is 0
RateBelow(so, pa, pct) == IF pa = 0 THEN 0 < pct ELSE 100 * so < pct * pa

RateAbove(so, pa, pct) == IF pa = 0 THEN 0 > pct ELSE 100 * so > pct * pa

\* C12: the traits string holds at most one tag of each category, in the
\* order power, contact, speed, defense, separated by spaces, and a tag is
\* there exactly when its rule is the first of its category that matches:
\* P++ for HR >= 35 or SLG >= .560, else P+ for HR >= 25 or SLG >= .475, else
\* P- for HR <= 5; C+ for doubles >= 35 or SO/PA < 0.12, else C- for
\* SO/PA > 0.25; S+ for SB >= 20, else S- for SB = 0.
C12_BattingTraits ==
    traitResult # <<>> =>
        LET str     == traitResult[1]
            IsTag(t) == t # " "
            tags    == SelectSeq(str, IsTag)
            Has(t)  == \E k \in 1..Len(tags) : tags[k] = t
            hr      == Stat(ParseInt(traitArg.HR))
            slg     == Stat(ParseFloatMilli(traitArg.SLG))
            doubles == Stat(ParseInt(traitArg.Doubles))
            pa      == Stat(ParseInt(traitArg.PA))
            so      == Stat(ParseInt(traitArg.SO))
            sb      == Stat(ParseInt(traitArg.SB))
            pp      == hr >= 35 \/ slg >= 560
            p       == hr >= 25 \/ slg >= 475
            cp      == doubles >= 35 \/ RateBelow(so, pa, 12)
        IN  /\ Len(str) = IF Len(tags) = 0 THEN 0 ELSE 2 * Len(tags) - 1
            /\ \A k \in 1..Len(str) : (str[k] = " ") <=> (k % 2 = 0)
            /\ \A k \in 1..Len(tags) : \E c \in 1..Len(TagCategories) : tags[k] \in TagCategories[c]
            /\ \A j, k \in 1..Len(tags) : j < k => CategoryOf(tags[j]) < CategoryOf(tags[k])
            /\ Has("P++") <=> pp
            /\ Has("P+")  <=> (~pp /\ p)
            /\ Has("P-")  <=> (~pp /\ ~p /\ hr <= 5)
            /\ Has("C+")  <=> cp
            /\ Has("C-")  <=> (~cp /\ RateAbove(so, pa, 25))
            /\ Has("S+")  <=> sb >= 20
            /\ Has("S-")  <=> sb = 0

\* C12 witness: HR 5 with SLG .560 gave P++ (not P-), PA 0 gave C+, a
\* missing SB gave S-, and the four tags are in category order
C12_Witness ==
    /\ traitResult = << <<"P++", " ", "C+", " ", "S-", " ", "D+">> >>
    /\ traitArg.HR = <<"5">>
    /\ traitArg.SLG = <<".", "5", "6", "0">>
    /\ traitArg.PA = <<"0">>
    /\ traitArg.SO = <<"2", "6">>
    /\ traitArg.SB = <<>>

----------------------------------------------------------------------------
(* getPosition alone, applied to every short string over the characters of *)
(* the position codes                                                      *)

MaxPosLen == 2

PosChars == {"C", "F", "1", "2", "3", "B", "S", "L", "R", "O", "D", "H", "/"}

InitPos ==
    /\ UiInitial
    /\ PdIdle
    /\ FilterIdle
    /\ TraitIdle
    /\ posArg \in SeqsUpTo(PosChars, MaxPosLen)
    /\ posResult = <<>>

\* posResult is the one-element sequence of the returned code
ApplyGetPosition ==
    /\ posResult = <<>>
    /\ posResult' = <<getPosition(posArg)>>
    /\ UNCHANGED <<uiVars, pdVars, filterVars, traitVars, posArg>>

NextPos == ApplyGetPosition

SpecPos == InitPos /\ [][NextPos]_vars

\* C13: a raw Pos string that is exactly one of the eight field position
\* codes C, 1B, 2B, 3B, SS, LF, CF, RF is resolved to that code (the k-th
\* position string is the spelling of the k-th lineup position).
C13_FieldCodeResolves ==
    posResult # <<>> =>
        \A k \in 1..Len(positions) :
            posArg = PosStrings[k] => posResult[1] = positions[k]

====
